---------------------------- MODULE Spec2Model ----------------------------
(* A model of cargo-fmt's option resolution and invocation orchestration   *)
(* (src/cargo-fmt/main.rs): the `fmt` token filter, the verbosity check,   *)
(* the info-query routes, CargoFmtStrategy::from_opts, the assembly of the *)
(* rustfmt argument list, convert_message_format_to_rustfmt_args, the      *)
(* manifest-path check and the mapping of the formatter's outcome to the   *)
(* exit status.                                                            *)
(*                                                                         *)
(* Strings are TLA+ strings; Option<String> is a sequence of length 0      *)
(* (None) or 1 (Some); Vec<String> is a sequence of strings.               *)
EXTENDS Integers, Sequences, FiniteSets, TLC

VARIABLES
    pc,            \* position in execute(): see the actions below
    env_args,      \* env::args(), the raw argument vector of the process
    args,          \* the arguments as handed to Opts::from_iter
    opts,          \* the parsed Opts
    verbosity,     \* the Verbosity built from (verbose, quiet)
    strategy,      \* the CargoFmtStrategy built by from_opts
    rustfmt_args,  \* the argument list being assembled for rustfmt
    args_in,       \* rustfmt_args as it was at line 119, before the translator
    calls,         \* number of completed translator calls
    result,        \* Result<(), String> of the last translator call
    spawned,       \* argument lists of the rustfmt processes Command::spawn was asked to start
    child,         \* what became of the rustfmt child of get_rustfmt_info
    format_call,   \* the arguments of the cargo_fmt::format_crate call, if made
    stderr,        \* reasons printed by print_usage_to_stderr, each followed by the usage help
    exit_status    \* the value execute() returned

vars == << pc, env_args, args, opts, verbosity, strategy, rustfmt_args, args_in,
           calls, result, spawned, child, format_call, stderr, exit_status >>

-----------------------------------------------------------------------------
(* Bounds of the model *)

MaxRawArgs == 3          \* length of env::args() in SpecArgs
MaxPackages == 3         \* number of -p packages in SpecStrategy
MaxConvertArgs == 2      \* length of the list given to the translator in SpecConvert
MaxConvertCalls == 2     \* successive translator calls in SpecConvert
MaxOptPackages == 1      \* number of -p packages in Spec
MaxRustfmtOptions == 2   \* number of pass-through arguments in Spec

-----------------------------------------------------------------------------
(* Program constants *)

SUCCESS == 0
FAILURE == 1

-----------------------------------------------------------------------------
(* str and Vec helpers *)

\* str::starts_with
starts_with(s, p) ==
    /\ Len(s) >= Len(p)
    /\ SubSeq(s, 1, Len(p)) = p

\* str::ends_with
ends_with(s, p) ==
    /\ Len(s) >= Len(p)
    /\ SubSeq(s, Len(s) - Len(p) + 1, Len(s)) = p

\* substring test, used to read what an error message mentions
str_contains(s, sub) ==
    \E i \in 1..(Len(s) - Len(sub) + 1) : SubSeq(s, i, i + Len(sub) - 1) = sub

\* All sequences over S of length at most n
SeqsUpTo(S, n) == UNION { [1..k -> S] : k \in 0..n }

\* Result<(), String> and Result<i32, io::Error>
Ok == [ok |-> TRUE, code |-> SUCCESS, msg |-> ""]
OkCode(c) == [ok |-> TRUE, code |-> c, msg |-> ""]
Err(m) == [ok |-> FALSE, code |-> SUCCESS, msg |-> m]

NoResult == [ok |-> TRUE, code |-> -1, msg |-> "not called"]

-----------------------------------------------------------------------------
(* execute(): dropping the extra `fmt` argument, lines 77-86 *)

RECURSIVE filter_fmt_all(_, _)
\* the filter with the found_fmt latch lost: every "fmt" is dropped
filter_fmt_all(xs, found_fmt) ==
    IF xs = << >> THEN << >>
    ELSE IF Head(xs) # "fmt"
         THEN << Head(xs) >> \o filter_fmt_all(Tail(xs), found_fmt)
         ELSE filter_fmt_all(Tail(xs), found_fmt)

RECURSIVE filter_fmt(_, _)
\* env::args().filter(|x| if found_fmt { true } else { found_fmt = x == "fmt"; x != "fmt" })
filter_fmt(xs, found_fmt) ==
    IF xs = << >> THEN << >>
    ELSE IF found_fmt
         THEN << Head(xs) >> \o filter_fmt(Tail(xs), TRUE)
         ELSE IF Head(xs) # "fmt"
              THEN << Head(xs) >> \o filter_fmt(Tail(xs), Head(xs) = "fmt")
              ELSE filter_fmt(Tail(xs), Head(xs) = "fmt")

-----------------------------------------------------------------------------
(* CargoFmtStrategy, lines 242-250 *)

NoStrategy == [kind |-> "unset", packages |-> << >>]
Root == [kind |-> "Root", packages |-> << >>]
All == [kind |-> "All", packages |-> << >>]
Some(packages) == [kind |-> "Some", packages |-> packages]

\* from_opts with the first two match arms tested in the wrong priority
from_opts_packages_first(o) ==
    IF o.packages # << >> THEN Some(o.packages)
    ELSE IF o.format_all THEN All
    ELSE Root

from_opts(o) ==
    CASE ~o.format_all /\ o.packages = << >> -> Root
      [] o.format_all -> All
      [] ~o.format_all /\ o.packages # << >> -> Some(o.packages)

-----------------------------------------------------------------------------
(* convert_message_format_to_rustfmt_args, lines 154-202 *)

EmitError == "cannot include --emit arg when --message-format is set to json"
CheckError == "cannot include --check arg when --message-format is set to json"
InvalidFormatError(message_format) ==
    "invalid --message-format value: " \o message_format
        \o ". Allowed values are: short|json|human"

contains_emit_mode(a) == \E i \in DOMAIN a : starts_with(a[i], "--emit")
contains_check(a) == \E i \in DOMAIN a : a[i] = "--check"
contains_list_files(a) == \E i \in DOMAIN a : a[i] = "-l" \/ a[i] = "--files-with-diff"

\* the translator with the contains_check test of the "json" arm left out
convert_no_check_test(message_format, a) ==
    CASE message_format = "short" ->
            [args |-> IF ~contains_list_files(a) THEN Append(a, "-l") ELSE a,
             result |-> Ok]
      [] message_format = "json" ->
            IF contains_emit_mode(a) THEN [args |-> a, result |-> Err(EmitError)]
            ELSE [args |-> a \o << "--emit", "json" >>, result |-> Ok]
      [] message_format = "human" -> [args |-> a, result |-> Ok]
      [] OTHER -> [args |-> a, result |-> Err(InvalidFormatError(message_format))]

\* the translator pushing before it validates, so a failing "json" call
\* leaves its two entries behind
convert_push_first(message_format, a) ==
    CASE message_format = "short" ->
            [args |-> IF ~contains_list_files(a) THEN Append(a, "-l") ELSE a,
             result |-> Ok]
      [] message_format = "json" ->
            IF contains_emit_mode(a)
            THEN [args |-> a \o << "--emit", "json" >>, result |-> Err(EmitError)]
            ELSE IF contains_check(a)
            THEN [args |-> a \o << "--emit", "json" >>, result |-> Err(CheckError)]
            ELSE [args |-> a \o << "--emit", "json" >>, result |-> Ok]
      [] message_format = "human" -> [args |-> a, result |-> Ok]
      [] OTHER -> [args |-> a, result |-> Err(InvalidFormatError(message_format))]

\* the translator whose list-files scan knows "--files-with-diff" only
convert_long_flag_only(message_format, a) ==
    CASE message_format = "short" ->
            [args |-> IF ~(\E i \in DOMAIN a : a[i] = "--files-with-diff")
                      THEN Append(a, "-l") ELSE a,
             result |-> Ok]
      [] message_format = "json" ->
            IF contains_emit_mode(a) THEN [args |-> a, result |-> Err(EmitError)]
            ELSE IF contains_check(a) THEN [args |-> a, result |-> Err(CheckError)]
            ELSE [args |-> a \o << "--emit", "json" >>, result |-> Ok]
      [] message_format = "human" -> [args |-> a, result |-> Ok]
      [] OTHER -> [args |-> a, result |-> Err(InvalidFormatError(message_format))]

\* The value is the pair (rustfmt_args after the call, the Result returned).
convert_message_format_to_rustfmt_args(message_format, a) ==
    CASE message_format = "short" ->
            [args |-> IF ~contains_list_files(a) THEN Append(a, "-l") ELSE a,
             result |-> Ok]
      [] message_format = "json" ->
            IF contains_emit_mode(a) THEN [args |-> a, result |-> Err(EmitError)]
            ELSE IF contains_check(a) THEN [args |-> a, result |-> Err(CheckError)]
            ELSE [args |-> a \o << "--emit", "json" >>, result |-> Ok]
      [] message_format = "human" -> [args |-> a, result |-> Ok]
      [] OTHER -> [args |-> a, result |-> Err(InvalidFormatError(message_format))]

-----------------------------------------------------------------------------
(* execute(): the pieces of lines 90-144 *)

NoVerbosity == "unset"

\* match (opts.verbose, opts.quiet), lines 90-98; "conflict" is the (true, true) arm
verbosity_of(o) ==
    CASE ~o.verbose /\ ~o.quiet -> "Normal"
      [] ~o.verbose /\ o.quiet -> "Quiet"
      [] o.verbose /\ ~o.quiet -> "Verbose"
      [] o.verbose /\ o.quiet -> "conflict"

\* the informational-flag test with the two starts_with alternatives left out
is_info_flag_exact_only(s) ==
    s \in { "--print-config", "-h", "--help", "-V", "--version" }

\* the closure of lines 103-107
is_info_flag(s) ==
    \/ s \in { "--print-config", "-h", "--help", "-V", "--version" }
    \/ starts_with(s, "--help=")
    \/ starts_with(s, "--print-config=")

has_info_flag(o) == \E i \in DOMAIN o.rustfmt_options : is_info_flag(o.rustfmt_options[i])

\* lines 112-118 with the dedup test left out
push_check_always(o) ==
    IF o.check THEN Append(o.rustfmt_options, "--check") ELSE o.rustfmt_options

\* lines 112-118: rustfmt_args after the check-mode flag was considered
push_check(o) ==
    IF o.check
    THEN IF ~(\E i \in DOMAIN o.rustfmt_options : o.rustfmt_options[i] = "--check")
         THEN Append(o.rustfmt_options, "--check")
         ELSE o.rustfmt_options
    ELSE o.rustfmt_options

\* lines 112-125 with the translator run before the check-mode flag is appended
assemble_translate_first(o) ==
    LET t == IF o.message_format # << >>
             THEN convert_message_format_to_rustfmt_args(o.message_format[1],
                                                         o.rustfmt_options)
             ELSE [args |-> o.rustfmt_options, result |-> NoResult]
    IN  [pushed |-> o.rustfmt_options,
         args |-> IF t.result.ok THEN push_check([o EXCEPT !.rustfmt_options = t.args])
                  ELSE t.args,
         result |-> t.result]

\* lines 112-125: pushed is rustfmt_args at line 119, args is rustfmt_args at
\* line 126 (or at the early return), result is the translator's Result
assemble(o) ==
    LET pushed == push_check(o)
        t == IF o.message_format # << >>
             THEN convert_message_format_to_rustfmt_args(o.message_format[1], pushed)
             ELSE [args |-> pushed, result |-> NoResult]
    IN  [pushed |-> pushed, args |-> t.args, result |-> t.result]

\* the manifest-path test accepting every path
manifest_path_ok_any(p) == TRUE

\* line 129
manifest_path_ok(p) == ends_with(p, "Cargo.toml")

\* handle_command_status turning every non-zero status into FAILURE
handle_command_status_flatten(status) ==
    IF ~status.ok THEN FAILURE
    ELSE IF status.code = SUCCESS THEN SUCCESS ELSE FAILURE

\* handle_command_status, lines 212-220: the value returned
handle_command_status(status) ==
    IF ~status.ok THEN FAILURE ELSE status.code

\* handle_command_status, line 215: what print_usage_to_stderr is given
status_report(status) == IF ~status.ok THEN << status.msg >> ELSE << >>

NotFoundMessage == "Could not run rustfmt, please make sure it is in your PATH."

\* What the operating system can do with the rustfmt child: spawn() fails (not
\* found, or otherwise), wait() fails, the child exits with a code, or the
\* child is ended by a signal (ExitStatus::code() is None).
ChildOutcomes ==
    { [kind |-> "spawn_err", errkind |-> "NotFound", code |-> 0,
       msg |-> "No such file or directory (os error 2)"],
      [kind |-> "spawn_err", errkind |-> "PermissionDenied", code |-> 0,
       msg |-> "Permission denied (os error 13)"],
      [kind |-> "wait_err", errkind |-> "Other", code |-> 0,
       msg |-> "No child processes (os error 10)"],
      [kind |-> "exit", errkind |-> "", code |-> 0, msg |-> ""],
      [kind |-> "exit", errkind |-> "", code |-> 3, msg |-> ""],
      [kind |-> "signal", errkind |-> "", code |-> 0, msg |-> ""] }

NoChild == [kind |-> "none", errkind |-> "", code |-> 0, msg |-> ""]

\* get_rustfmt_info, lines 222-240: the Result for one outcome of the child
get_rustfmt_info(outcome) ==
    CASE outcome.kind = "spawn_err" ->
            IF outcome.errkind = "NotFound" THEN Err(NotFoundMessage)
            ELSE Err(outcome.msg)
      [] outcome.kind = "wait_err" -> Err(outcome.msg)
      [] outcome.kind = "exit" ->
            IF outcome.code = 0 THEN OkCode(SUCCESS) ELSE OkCode(outcome.code)
      [] outcome.kind = "signal" -> OkCode(SUCCESS)

\* The Result<i32, io::Error> values cargo_fmt::format_crate (lib.rs) may return
FormatOutcomes ==
    { OkCode(SUCCESS), OkCode(FAILURE), Err("Permission denied (os error 13)") }

-----------------------------------------------------------------------------
(* Inputs *)

DefaultOpts ==
    [quiet |-> FALSE, verbose |-> FALSE, version |-> FALSE, packages |-> << >>,
     manifest_path |-> << >>, message_format |-> << >>, rustfmt_options |-> << >>,
     format_all |-> FALSE, check |-> FALSE]

RawTokens == { "cargo-fmt", "fmt", "-p", "--all" }
PackageNames == { "a", "b", "fmt" }
ConvertTokens == { "--check", "--emit", "--emit=files", "-l", "--files-with-diff",
                   "json", "--edition" }
ConvertFormats == { "short", "json", "human", "xml", "" }

OptPackageNames == { "a" }
OptionTokens == { "--check", "--emit=files", "-l", "--files-with-diff",
                  "--help=config", "-V" }
MessageFormats == { << >>, << "short" >>, << "json" >>, << "human" >>, << "xml" >> }
ManifestPaths == { << >>, << "foo/Cargo.toml" >>, << "foo/bar.txt" >> }

OptsSet ==
    [quiet : BOOLEAN, verbose : BOOLEAN, version : BOOLEAN,
     packages : SeqsUpTo(OptPackageNames, MaxOptPackages),
     manifest_path : ManifestPaths,
     message_format : MessageFormats,
     rustfmt_options : SeqsUpTo(OptionTokens, MaxRustfmtOptions),
     format_all : BOOLEAN, check : BOOLEAN]

\* Everything but pc, env_args, opts and rustfmt_args, as it is before execute() acts
Fresh ==
    /\ args = << >>
    /\ verbosity = NoVerbosity
    /\ strategy = NoStrategy
    /\ args_in = << >>
    /\ calls = 0
    /\ result = NoResult
    /\ spawned = << >>
    /\ child = NoChild
    /\ format_call = << >>
    /\ stderr = << >>
    /\ exit_status = -1

-----------------------------------------------------------------------------
(* SpecArgs: the `fmt` filter of execute(), lines 77-88 *)

InitArgs ==
    /\ pc = "args"
    /\ env_args \in SeqsUpTo(RawTokens, MaxRawArgs)
    /\ opts = DefaultOpts
    /\ rustfmt_args = << >>
    /\ Fresh

StripFmt ==
    /\ pc = "args"
    /\ args' = filter_fmt(env_args, FALSE)
    /\ pc' = "parse"
    /\ UNCHANGED << env_args, opts, verbosity, strategy, rustfmt_args, args_in, calls,
                    result, spawned, child, format_call, stderr, exit_status >>

SpecArgs == InitArgs /\ [][StripFmt]_vars

-----------------------------------------------------------------------------
(* SpecStrategy: CargoFmtStrategy::from_opts over its inputs *)

InitStrategy ==
    /\ pc = "from_opts"
    /\ env_args = << >>
    /\ \E fa \in BOOLEAN, pk \in SeqsUpTo(PackageNames, MaxPackages) :
          opts = [DefaultOpts EXCEPT !.format_all = fa, !.packages = pk]
    /\ rustfmt_args = << >>
    /\ Fresh

CallFromOpts ==
    /\ pc = "from_opts"
    /\ strategy' = from_opts(opts)
    /\ pc' = "done"
    /\ UNCHANGED << env_args, args, opts, verbosity, rustfmt_args, args_in, calls,
                    result, spawned, child, format_call, stderr, exit_status >>

SpecStrategy == InitStrategy /\ [][CallFromOpts]_vars

-----------------------------------------------------------------------------
(* SpecConvert: convert_message_format_to_rustfmt_args over its inputs,     *)
(* called again on the list it left                                        *)

InitConvert ==
    /\ pc = "convert"
    /\ env_args = << >>
    /\ \E mf \in ConvertFormats : opts = [DefaultOpts EXCEPT !.message_format = << mf >>]
    /\ rustfmt_args \in SeqsUpTo(ConvertTokens, MaxConvertArgs)
    /\ Fresh

CallConvert ==
    /\ pc = "convert"
    /\ calls < MaxConvertCalls
    /\ LET r == convert_message_format_to_rustfmt_args(opts.message_format[1], rustfmt_args)
       IN  /\ rustfmt_args' = r.args
           /\ result' = r.result
    /\ args_in' = rustfmt_args
    /\ calls' = calls + 1
    /\ UNCHANGED << pc, env_args, args, opts, verbosity, strategy, spawned, child,
                    format_call, stderr, exit_status >>

SpecConvert == InitConvert /\ [][CallConvert]_vars

-----------------------------------------------------------------------------
(* Spec: execute() from the parsed Opts (line 88) to its return *)

Init ==
    /\ pc = "verbosity"
    /\ env_args = << >>
    /\ opts \in OptsSet
    /\ rustfmt_args = << >>
    /\ Fresh

\* print_usage_to_stderr(reason); return FAILURE
FailWith(reason) ==
    /\ stderr' = Append(stderr, reason)
    /\ exit_status' = FAILURE
    /\ pc' = "done"

\* return handle_command_status(get_rustfmt_info(a)), for one outcome of the child
InfoQuery(a, outcome) ==
    LET status == get_rustfmt_info(outcome)
    IN  /\ spawned' = Append(spawned, a)
        /\ child' = outcome
        /\ stderr' = stderr \o status_report(status)
        /\ exit_status' = handle_command_status(status)
        /\ pc' = "done"

\* lines 90-98
CheckVerbosity ==
    /\ pc = "verbosity"
    /\ IF verbosity_of(opts) = "conflict"
       THEN /\ FailWith("quiet mode and verbose mode are not compatible")
            /\ UNCHANGED verbosity
       ELSE /\ verbosity' = verbosity_of(opts)
            /\ pc' = "route"
            /\ UNCHANGED << stderr, exit_status >>
    /\ UNCHANGED << env_args, args, opts, strategy, rustfmt_args, args_in, calls, result,
                    spawned, child, format_call >>

\* lines 100-102
QueryVersion ==
    /\ pc = "route"
    /\ opts.version
    /\ \E outcome \in ChildOutcomes : InfoQuery(<< "--version" >>, outcome)
    /\ UNCHANGED << env_args, args, opts, verbosity, strategy, rustfmt_args, args_in,
                    calls, result, format_call >>

\* lines 103-109
QueryInfo ==
    /\ pc = "route"
    /\ ~opts.version
    /\ has_info_flag(opts)
    /\ \E outcome \in ChildOutcomes : InfoQuery(opts.rustfmt_options, outcome)
    /\ UNCHANGED << env_args, args, opts, verbosity, strategy, rustfmt_args, args_in,
                    calls, result, format_call >>

\* lines 111-125
Assemble ==
    /\ pc = "route"
    /\ ~opts.version
    /\ ~has_info_flag(opts)
    /\ strategy' = from_opts(opts)
    /\ LET a == assemble(opts)
       IN  /\ rustfmt_args' = a.args
           /\ args_in' = a.pushed
           /\ result' = a.result
           /\ calls' = IF opts.message_format # << >> THEN calls + 1 ELSE calls
           /\ IF ~a.result.ok
              THEN FailWith(a.result.msg)
              ELSE /\ pc' = "manifest"
                   /\ UNCHANGED << stderr, exit_status >>
    /\ UNCHANGED << env_args, args, opts, verbosity, spawned, child, format_call >>

\* lines 127-144
FormatCrate ==
    /\ pc = "manifest"
    /\ IF opts.manifest_path # << >> /\ ~manifest_path_ok(opts.manifest_path[1])
       THEN /\ FailWith("the manifest-path must be a path to a Cargo.toml file")
            /\ UNCHANGED format_call
       ELSE \E status \in FormatOutcomes :
               /\ format_call' = << [verbosity |-> verbosity, strategy |-> strategy,
                                     rustfmt_args |-> rustfmt_args,
                                     manifest_path |-> opts.manifest_path,
                                     status |-> status] >>
               /\ stderr' = stderr \o status_report(status)
               /\ exit_status' = handle_command_status(status)
               /\ pc' = "done"
    /\ UNCHANGED << env_args, args, opts, verbosity, strategy, rustfmt_args, args_in,
                    calls, result, spawned, child >>

Next ==
    \/ CheckVerbosity
    \/ QueryVersion
    \/ QueryInfo
    \/ Assemble
    \/ FormatCrate

Spec == Init /\ [][Next]_vars

-----------------------------------------------------------------------------
(* Properties *)

Count(a, x) == Cardinality({ i \in DOMAIN a : a[i] = x })
Suffix(a, n) == SubSeq(a, n + 1, Len(a))
IsPrefix(p, a) == Len(p) <= Len(a) /\ SubSeq(a, 1, Len(p)) = p

\* C1: from_opts is total: All when format_all is set, whatever the packages;
\* else Some(packages), names, order and duplicates kept, when packages is
\* non-empty; else Root.
C1_FromOptsTotal ==
    pc = "done" =>
        /\ strategy.kind \in { "Root", "All", "Some" }
        /\ opts.format_all => strategy.kind = "All"
        /\ (~opts.format_all /\ opts.packages # << >>) =>
              (strategy.kind = "Some" /\ strategy.packages = opts.packages)
        /\ (~opts.format_all /\ opts.packages = << >>) => strategy.kind = "Root"

C1_Witness ==
    /\ pc = "done"
    /\ strategy.kind = "Some"
    /\ Len(strategy.packages) = 3
    /\ strategy.packages[1] = strategy.packages[3]
    /\ strategy.packages[1] # strategy.packages[2]

\* The configuration errors of the options, read off the options alone
QuietVerboseConflict(o) == o.quiet /\ o.verbose
MessageFormatError(o) ==
    /\ o.message_format # << >>
    /\ \/ o.message_format[1] \notin { "short", "json", "human" }
       \/ /\ o.message_format[1] = "json"
          /\ \/ o.check
             \/ \E i \in DOMAIN o.rustfmt_options :
                   \/ o.rustfmt_options[i] = "--check"
                   \/ starts_with(o.rustfmt_options[i], "--emit")
ManifestPathError(o) ==
    /\ o.manifest_path # << >>
    /\ ~ends_with(o.manifest_path[1], "Cargo.toml")
ConfigurationError(o) ==
    QuietVerboseConflict(o) \/ MessageFormatError(o) \/ ManifestPathError(o)

\* An argument of the informational set, written out from the claim
Informational(x) ==
    \/ x = "--print-config" \/ x = "-h" \/ x = "--help" \/ x = "-V" \/ x = "--version"
    \/ starts_with(x, "--help=") \/ starts_with(x, "--print-config=")
InfoRouted(o) ==
    o.version \/ \E i \in DOMAIN o.rustfmt_options : Informational(o.rustfmt_options[i])

NothingSpawned == spawned = << >> /\ format_call = << >>

\* C2 as stated: whenever the options hold a configuration error, no external
\* process is spawned at any point and the run ends with exit status 1, for
\* every combination of the other options, --version and informational
\* pass-through flags included.
C2_ConfigErrorNeverSpawns ==
    ConfigurationError(opts) =>
        (NothingSpawned /\ (pc = "done" => exit_status = FAILURE))

\* C2 amended: the same holds when quiet and verbose are both set, and for
\* the other configuration errors when the run is not an info query (neither
\* --version nor an informational pass-through argument is given).
C2_ConfigErrorNeverSpawnsOffInfoRoute ==
    (QuietVerboseConflict(opts) \/ (ConfigurationError(opts) /\ ~InfoRouted(opts))) =>
        (NothingSpawned /\ (pc = "done" => exit_status = FAILURE))

C2_Witness ==
    /\ pc = "done"
    /\ ManifestPathError(opts)
    /\ ~MessageFormatError(opts)
    /\ ~QuietVerboseConflict(opts)
    /\ ~InfoRouted(opts)
    /\ opts.check
    /\ NothingSpawned
    /\ exit_status = FAILURE
    /\ Len(stderr) = 1

\* What the translator was called with, in SpecConvert
Format == opts.message_format[1]

\* C3 as stated: the translator fails exactly for "json" with an --emit...
\* entry (error mentions --emit), for "json" with a --check entry (error
\* mentions --check), and for a format outside short|json|human (error names
\* the value and lists short|json|human).
C3_FailsExactly ==
    calls >= 1 =>
        /\ ~result.ok <=>
              \/ Format = "json" /\ contains_emit_mode(args_in)
              \/ Format = "json" /\ contains_check(args_in)
              \/ Format \notin { "short", "json", "human" }
        /\ (Format = "json" /\ contains_emit_mode(args_in)) =>
              str_contains(result.msg, "--emit")
        /\ (Format = "json" /\ contains_check(args_in)) =>
              str_contains(result.msg, "--check")
        /\ Format \notin { "short", "json", "human" } =>
              /\ str_contains(result.msg, Format)
              /\ str_contains(result.msg, "short|json|human")

\* C3 amended: as stated, except that for "json" with a --check entry the
\* error mentions --check only when no entry starts with --emit; when both
\* are present the error is the --emit one and does not mention --check.
C3_FailsExactlyEmitFirst ==
    calls >= 1 =>
        /\ ~result.ok <=>
              \/ Format = "json" /\ contains_emit_mode(args_in)
              \/ Format = "json" /\ contains_check(args_in)
              \/ Format \notin { "short", "json", "human" }
        /\ (Format = "json" /\ contains_emit_mode(args_in)) =>
              /\ str_contains(result.msg, "--emit")
              /\ ~str_contains(result.msg, "--check")
        /\ (Format = "json" /\ contains_check(args_in) /\ ~contains_emit_mode(args_in)) =>
              str_contains(result.msg, "--check")
        /\ Format \notin { "short", "json", "human" } =>
              /\ str_contains(result.msg, Format)
              /\ str_contains(result.msg, "short|json|human")

C3_Witness ==
    /\ calls = 1
    /\ Format = "json"
    /\ contains_check(args_in)
    /\ contains_emit_mode(args_in)
    /\ ~result.ok
    /\ str_contains(result.msg, "--emit")

\* C4: after the translator returns, its input list is an unchanged prefix of
\* the list, and the appended suffix is ["--emit", "json"] for a successful
\* "json", ["-l"] or nothing for "short", nothing for "human" and for every
\* failing call.
C4_InputIsPrefix ==
    calls >= 1 =>
        /\ IsPrefix(args_in, rustfmt_args)
        /\ ~result.ok => Suffix(rustfmt_args, Len(args_in)) = << >>
        /\ (result.ok /\ Format = "json") =>
              Suffix(rustfmt_args, Len(args_in)) = << "--emit", "json" >>
        /\ (result.ok /\ Format = "short") =>
              Suffix(rustfmt_args, Len(args_in)) \in { << "-l" >>, << >> }
        /\ (result.ok /\ Format = "human") => Suffix(rustfmt_args, Len(args_in)) = << >>

C4_Witness ==
    /\ calls = 1
    /\ Format = "json"
    /\ result.ok
    /\ Len(args_in) = 2
    /\ rustfmt_args = args_in \o << "--emit", "json" >>

\* C5: "short" leaves a list holding "-l" or "--files-with-diff" unchanged,
\* appends exactly one "-l" to a list holding neither, and so a second
\* application changes nothing.
C5_ShortIdempotent ==
    (calls >= 1 /\ Format = "short") =>
        /\ (\E i \in DOMAIN args_in : args_in[i] \in { "-l", "--files-with-diff" }) =>
              rustfmt_args = args_in
        /\ ~(\E i \in DOMAIN args_in : args_in[i] \in { "-l", "--files-with-diff" }) =>
              rustfmt_args = Append(args_in, "-l")
        /\ calls >= 2 => rustfmt_args = args_in

C5_Witness ==
    /\ calls = 2
    /\ Format = "short"
    /\ Count(rustfmt_args, "-l") = 1
    /\ Count(rustfmt_args, "--files-with-diff") = 0
    /\ rustfmt_args[Len(rustfmt_args)] = "-l"
    /\ Len(rustfmt_args) = 3
    /\ rustfmt_args = args_in

\* The format path has passed line 111
Assembled == strategy # NoStrategy

\* C6: with --check requested, the list assembled before the translation is
\* the pass-through arguments unchanged if they hold "--check", and followed
\* by one "--check" otherwise; --check as a flag and once in the pass-through
\* arguments gives exactly one "--check" in the final list; without --check
\* the pass-through arguments are used unchanged.
C6_CheckAppendedOnce ==
    Assembled =>
        /\ (opts.check /\ Count(opts.rustfmt_options, "--check") > 0) =>
              args_in = opts.rustfmt_options
        /\ (opts.check /\ Count(opts.rustfmt_options, "--check") = 0) =>
              args_in = Append(opts.rustfmt_options, "--check")
        /\ ~opts.check => args_in = opts.rustfmt_options
        /\ (opts.check /\ Count(opts.rustfmt_options, "--check") = 1 /\ format_call # << >>) =>
              Count(format_call[1].rustfmt_args, "--check") = 1

C6_Witness ==
    /\ format_call # << >>
    /\ opts.check
    /\ Count(opts.rustfmt_options, "--check") = 1
    /\ Len(opts.rustfmt_options) = 2
    /\ Count(format_call[1].rustfmt_args, "--check") = 1

NoFormatWork ==
    /\ strategy = NoStrategy
    /\ rustfmt_args = << >>
    /\ calls = 0
    /\ format_call = << >>

\* C7: with --version (and no quiet/verbose conflict) the formatter is spawned
\* with exactly ["--version"]; otherwise, with an informational pass-through
\* argument, it is spawned with exactly the pass-through arguments in their
\* order; in both cases no Strategy is built, no "--check" and no
\* message-format flag is added, and the format invocation is never reached.
C7_InfoRouting ==
    (~QuietVerboseConflict(opts) /\ InfoRouted(opts)) =>
        /\ NoFormatWork
        /\ pc \in { "verbosity", "route", "done" }
        /\ pc = "done" =>
              spawned = << IF opts.version THEN << "--version" >>
                           ELSE opts.rustfmt_options >>

C7_Witness ==
    /\ pc = "done"
    /\ ~opts.version
    /\ opts.check
    /\ opts.message_format = << "json" >>
    /\ opts.rustfmt_options = << "--check", "--help=config" >>
    /\ spawned = << << "--check", "--help=config" >> >>

\* C8: a formatter that exits non-zero gives exactly its exit code and no
\* message; one that exits successfully gives 0; one that cannot be launched
\* is reported through the usage routine with status 1, a not-found failure
\* as the message naming PATH; a Result handed to handle_command_status
\* gives its code, or status 1 and its error as the report.
C8_ExitStatusMapping ==
    pc = "done" =>
        /\ (child.kind = "exit" /\ child.code # 0) =>
              (exit_status = child.code /\ stderr = << >>)
        /\ (child.kind = "exit" /\ child.code = 0) => exit_status = 0
        /\ child.kind = "spawn_err" =>
              /\ exit_status = 1
              /\ Len(stderr) = 1
              /\ IF child.errkind = "NotFound"
                 THEN /\ str_contains(stderr[1], "make sure it is in your PATH")
                      /\ ~str_contains(stderr[1], child.msg)
                 ELSE stderr[1] = child.msg
        /\ (format_call # << >> /\ format_call[1].status.ok) =>
              (exit_status = format_call[1].status.code /\ stderr = << >>)
        /\ (format_call # << >> /\ ~format_call[1].status.ok) =>
              (exit_status = 1 /\ stderr = << format_call[1].status.msg >>)

C8_Witness ==
    /\ pc = "done"
    /\ spawned = << << "--version" >> >>
    /\ child.kind = "exit"
    /\ child.code = 3
    /\ exit_status = 3
    /\ stderr = << >>

\* C9: the arguments handed to the option parser are the raw arguments with
\* only the first "fmt" removed; every other argument, a later "fmt" included,
\* keeps its place, and arguments without "fmt" pass unchanged.
C9_OnlyFirstFmtStripped ==
    pc = "parse" =>
        IF \A i \in DOMAIN env_args : env_args[i] # "fmt"
        THEN args = env_args
        ELSE \E k \in DOMAIN env_args :
                /\ env_args[k] = "fmt"
                /\ \A j \in 1..(k - 1) : env_args[j] # "fmt"
                /\ args = SubSeq(env_args, 1, k - 1) \o Suffix(env_args, k)

C9_Witness ==
    /\ pc = "parse"
    /\ env_args = << "cargo-fmt", "fmt", "fmt" >>
    /\ args = << "cargo-fmt", "fmt" >>

FormatPath == ~QuietVerboseConflict(opts) /\ ~InfoRouted(opts)

\* C10: on the format path, --check with --message-format json always ends in
\* a configuration error (status 1, no format invocation); --check with short
\* or human gives the pass-through arguments, then "--check" if it was absent,
\* then the translator's suffix.
C10_CheckBeforeTranslation ==
    (FormatPath /\ opts.check) =>
        /\ opts.message_format = << "json" >> =>
              /\ NothingSpawned
              /\ pc # "manifest"
              /\ pc = "done" => (exit_status = FAILURE /\ Len(stderr) = 1)
        /\ (Assembled /\ opts.message_format \in { << "short" >>, << "human" >> }) =>
              rustfmt_args =
                  opts.rustfmt_options
                  \o (IF Count(opts.rustfmt_options, "--check") = 0
                      THEN << "--check" >> ELSE << >>)
                  \o (IF /\ opts.message_format = << "short" >>
                         /\ Count(opts.rustfmt_options, "-l") = 0
                         /\ Count(opts.rustfmt_options, "--files-with-diff") = 0
                      THEN << "-l" >> ELSE << >>)

C10_Witness ==
    /\ pc = "done"
    /\ FormatPath
    /\ opts.check
    /\ opts.message_format = << "json" >>
    /\ opts.rustfmt_options = << "-l" >>
    /\ exit_status = FAILURE
    /\ Len(stderr) = 1
    /\ str_contains(stderr[1], "--check")
    /\ NothingSpawned

=============================================================================
